---- MODULE Spec2Model ----
(***************************************************************************)
(* Model of logicrepo's rule engine: the condition matcher and evaluator   *)
(* (evaluator.ts, carried in src/src/runner.ts lines 131-252) and the test *)
(* runner (src/src/runner.ts lines 1-129).                                 *)
(*                                                                         *)
(* Every JavaScript value the engine handles (a parsed YAML document) is   *)
(* one record shape:                                                       *)
(*   k     the kind: "undefined", "null", "boolean", "number", "string",   *)
(*         "array" or "object"                                             *)
(*   s     the text of a string; "NaN" marks the number NaN                *)
(*   n     the value of a number (integers only), 1/0 for true/false       *)
(*   keys  Object.keys(): the own keys in insertion order (for an array:   *)
(*         the index strings "0", "1", ...)                                *)
(*   items the value stored under keys[i]                                  *)
(***************************************************************************)
EXTENDS Integers, Sequences, FiniteSets, TLC

(* ------------------------------------------------------------------ *)
(* JavaScript values                                                   *)
(* ------------------------------------------------------------------ *)
Mk(k, s, n, keys, items) == [k |-> k, s |-> s, n |-> n, keys |-> keys, items |-> items]

Undef == Mk("undefined", "", 0, <<>>, <<>>)
Null == Mk("null", "", 0, <<>>, <<>>)
Bool(b) == Mk("boolean", "", IF b THEN 1 ELSE 0, <<>>, <<>>)
Num(n) == Mk("number", "", n, <<>>, <<>>)
NaN == Mk("number", "NaN", 0, <<>>, <<>>)
Str(s) == Mk("string", s, 0, <<>>, <<>>)
Obj(keys, items) == Mk("object", "", 0, keys, items)

\* the index keys of an array, as Object.keys() and the `in` operator see them
IndexKeys == <<"0", "1", "2", "3", "4", "5", "6", "7">>
Arr(items) == Mk("array", "", 0, [i \in 1..Len(items) |-> IndexKeys[i]], items)

EmptyObj == Obj(<<>>, <<>>)

IsNaN(v) == v.k = "number" /\ v.s = "NaN"

\* typeof v
TypeOf(v) ==
  IF v.k \in {"null", "array", "object"} THEN "object" ELSE v.k

\* Array.isArray(v)
IsArray(v) == v.k = "array"

\* key in v, for v an object or an array (own keys only)
HasKey(v, key) == \E i \in 1..Len(v.keys) : v.keys[i] = key

\* v[key]: the stored value, or undefined when v has no such key
Get(v, key) ==
  IF HasKey(v, key)
  THEN v.items[CHOOSE i \in 1..Len(v.keys) : v.keys[i] = key]
  ELSE Undef

\* a === b.  Two compound values are === only when they are the same object;
\* the values compared by the engine come from different parsed documents
\* (rule file, test input, test expectation), so they never are.
StrictEq(a, b) ==
  /\ a.k = b.k
  /\ CASE a.k \in {"undefined", "null"} -> TRUE
       [] a.k = "boolean" -> a.n = b.n
       [] a.k = "number" -> ~IsNaN(a) /\ ~IsNaN(b) /\ a.n = b.n
       [] a.k = "string" -> a.s = b.s
       [] OTHER -> FALSE

\* SameValueZero(a, b), the comparison of Array.prototype.includes:
\* like === except that NaN equals NaN
SameValueZero(a, b) ==
  \/ StrictEq(a, b)
  \/ IsNaN(a) /\ IsNaN(b)

\* the truthiness test of `cond ? a : b`
Truthy(v) ==
  CASE v.k \in {"undefined", "null"} -> FALSE
    [] v.k = "boolean" -> v.n = 1
    [] v.k = "number" -> ~IsNaN(v) /\ v.n # 0
    [] v.k = "string" -> v.s # ""
    [] OTHER -> TRUE

\* Number(s) for the strings of the model: the numeric strings it uses
\* convert to their number, every other string to NaN
StringToNumber(s) ==
  CASE s = "" -> Num(0)
    [] s = "1" -> Num(1)
    [] s = "10" -> Num(10)
    [] s = "100" -> Num(100)
    [] OTHER -> NaN

\* ToNumber(v), the conversion the relational operators apply to an operand
\* when the other one is a number
RECURSIVE ToNumber(_)
ToNumber(v) ==
  CASE v.k = "number" -> v
    [] v.k = "undefined" -> NaN
    [] v.k = "null" -> Num(0)
    [] v.k = "boolean" -> Num(v.n)
    [] v.k = "string" -> StringToNumber(v.s)
    [] v.k = "array" ->
         IF Len(v.items) = 0 THEN Num(0)
         ELSE IF Len(v.items) > 1 THEN NaN
         ELSE IF v.items[1].k \in {"undefined", "null"} THEN Num(0)
         ELSE IF v.items[1].k = "boolean" THEN NaN
         ELSE ToNumber(v.items[1])
    [] OTHER -> NaN

\* a >= b, a <= b, a > b, a < b with a a number: false when either side is NaN
JsGe(a, b) == LET y == ToNumber(b) IN ~IsNaN(a) /\ ~IsNaN(y) /\ a.n >= y.n
JsLe(a, b) == LET y == ToNumber(b) IN ~IsNaN(a) /\ ~IsNaN(y) /\ a.n <= y.n
JsGt(a, b) == LET y == ToNumber(b) IN ~IsNaN(a) /\ ~IsNaN(y) /\ a.n > y.n
JsLt(a, b) == LET y == ToNumber(b) IN ~IsNaN(a) /\ ~IsNaN(y) /\ a.n < y.n

\* {...v}: a fresh object with v's own enumerable properties; none for null
Spread(v) ==
  IF v.k \in {"object", "array"} THEN Obj(v.keys, v.items) ELSE EmptyObj

\* v once `delete v[key]` has run
Delete(v, key) ==
  LET other(i) == v.keys[i] # key
      idx == SelectSeq([i \in 1..Len(v.keys) |-> i], other)
  IN Mk(v.k, v.s, v.n, [j \in 1..Len(idx) |-> v.keys[idx[j]]],
        [j \in 1..Len(idx) |-> v.items[idx[j]]])

(* ------------------------------------------------------------------ *)
(* evaluator.ts: the condition matcher                                 *)
(* ------------------------------------------------------------------ *)
ComparisonKeys == {"gte", "lte", "gt", "lt"}

isComparisonOperator(value) ==
  /\ TypeOf(value) = "object"
  /\ value.k # "null"
  /\ \E i \in 1..Len(value.keys) : value.keys[i] \in ComparisonKeys

isInOperator(value) ==
  /\ TypeOf(value) = "object"
  /\ value.k # "null"
  /\ HasKey(value, "in")
  /\ IsArray(Get(value, "in"))

\* gte taken as an exclusive bound
compareValueExclusive(actual, operator) ==
  IF actual.k # "number" THEN FALSE
  ELSE IF Get(operator, "gte") # Undef /\ ~JsGt(actual, Get(operator, "gte")) THEN FALSE
  ELSE IF Get(operator, "lte") # Undef /\ ~JsLe(actual, Get(operator, "lte")) THEN FALSE
  ELSE IF Get(operator, "gt") # Undef /\ ~JsGt(actual, Get(operator, "gt")) THEN FALSE
  ELSE IF Get(operator, "lt") # Undef /\ ~JsLt(actual, Get(operator, "lt")) THEN FALSE
  ELSE TRUE

compareValue(actual, operator) ==
  IF actual.k # "number" THEN FALSE
  ELSE IF Get(operator, "gte") # Undef /\ ~JsGe(actual, Get(operator, "gte")) THEN FALSE
  ELSE IF Get(operator, "lte") # Undef /\ ~JsLe(actual, Get(operator, "lte")) THEN FALSE
  ELSE IF Get(operator, "gt") # Undef /\ ~JsGt(actual, Get(operator, "gt")) THEN FALSE
  ELSE IF Get(operator, "lt") # Undef /\ ~JsLt(actual, Get(operator, "lt")) THEN FALSE
  ELSE TRUE

checkInOperator(actual, operator) ==
  LET list == Get(operator, "in").items
  IN \E i \in 1..Len(list) : SameValueZero(list[i], actual)

\* a == b: null equals undefined, and a number, a string and a boolean are
\* compared as numbers
LooseEq(a, b) ==
  IF a.k = b.k THEN StrictEq(a, b)
  ELSE IF a.k \in {"undefined", "null"} \/ b.k \in {"undefined", "null"}
    THEN a.k \in {"undefined", "null"} /\ b.k \in {"undefined", "null"}
  ELSE IF a.k \in {"array", "object"} \/ b.k \in {"array", "object"} THEN FALSE
  ELSE StrictEq(ToNumber(a), ToNumber(b))

\* the exact match made with == instead of ===
matchConditionLoose(condition, actual) ==
  IF isComparisonOperator(condition) THEN compareValue(actual, condition)
  ELSE IF isInOperator(condition) THEN checkInOperator(actual, condition)
  ELSE LooseEq(actual, condition)

matchCondition(condition, actual) ==
  IF isComparisonOperator(condition) THEN compareValue(actual, condition)
  ELSE IF isInOperator(condition) THEN checkInOperator(actual, condition)
  ELSE StrictEq(actual, condition)

\* a missing field read as null
PropOrNull(input, field) ==
  IF HasKey(input, field) THEN Get(input, field) ELSE Null

\* input[field].  Reading a property of null or undefined raises a
\* TypeError, which the callers below test for before they read.
Prop(input, field) ==
  IF input.k = "array" /\ field = "length" THEN Num(Len(input.items))
  ELSE Get(input, field)

\* The matcher returns "true" or "false", or "TypeError" when the call
\* raises instead of returning.
RECURSIVE matchConditions(_, _)
RECURSIVE matchFields(_, _, _)
RECURSIVE everyMatches(_, _, _)
RECURSIVE someMatches(_, _, _)

\* the characters of the strings of the model; any other string of the
\* model is a single character
Chars(s) ==
  CASE s = "" -> <<>>
    [] s = "10" -> <<"1", "0">>
    [] s = "100" -> <<"1", "0", "0">>
    [] s = "vip" -> <<"v", "i", "p">>
    [] s = "VIP" -> <<"V", "I", "P">>
    [] s = "pricing" -> <<"p", "r", "i", "c", "i", "n", "g">>
    [] s = "access" -> <<"a", "c", "c", "e", "s", "s">>
    [] s = "std" -> <<"s", "t", "d">>
    [] s = "true" -> <<"t", "r", "u", "e">>
    [] OTHER -> <<s>>

\* the object whose keys and items are Object.entries(v): the own
\* properties of an object, the elements of an array, the characters of a
\* string, nothing for a number or a boolean
Entries(v) ==
  IF v.k = "string"
  THEN Arr([i \in 1..Len(Chars(v.s)) |-> Str(Chars(v.s)[i])])
  ELSE v

RECURSIVE matchFieldsReserved(_, _, _)
\* the loop with no `continue` on all and any: they are field constraints too
matchFieldsReserved(conditions, input, i) ==
  LET entries == Entries(conditions)
  IN IF i > Len(entries.keys) THEN "true"
     ELSE IF input.k \in {"undefined", "null"} THEN "TypeError"
     ELSE IF ~matchCondition(entries.items[i], Prop(input, entries.keys[i]))
       THEN "false"
     ELSE matchFieldsReserved(conditions, input, i + 1)

\* the loop over Object.entries(conditions), from entry i on
matchFields(conditions, input, i) ==
  LET entries == Entries(conditions)
  IN IF i > Len(entries.keys) THEN "true"
     ELSE IF entries.keys[i] \in {"all", "any"}
       THEN matchFields(conditions, input, i + 1)
     ELSE IF input.k \in {"undefined", "null"} THEN "TypeError"
     ELSE IF ~matchCondition(entries.items[i], Prop(input, entries.keys[i]))
       THEN "false"
     ELSE matchFields(conditions, input, i + 1)

\* list.every((c) => matchConditions(c, input)), from element i on
everyMatches(list, input, i) ==
  IF i > Len(list) THEN "true"
  ELSE LET r == matchConditions(list[i], input)
       IN IF r = "true" THEN everyMatches(list, input, i + 1) ELSE r

\* `any` evaluated with every instead of some
someMatchesEvery(list, input, i) == everyMatches(list, input, i)

RECURSIVE someMatchesOrEmpty(_, _, _)
\* `any` letting an empty list through
someMatchesOrEmpty(list, input, i) ==
  IF Len(list) = 0 THEN "true"
  ELSE IF i > Len(list) THEN "false"
  ELSE LET r == matchConditions(list[i], input)
       IN IF r = "false" THEN someMatchesOrEmpty(list, input, i + 1) ELSE r

\* list.some((c) => matchConditions(c, input)), from element i on
someMatches(list, input, i) ==
  IF i > Len(list) THEN "false"
  ELSE LET r == matchConditions(list[i], input)
       IN IF r = "false" THEN someMatches(list, input, i + 1) ELSE r

matchConditions(conditions, input) ==
  IF conditions.k \in {"undefined", "null"} THEN "TypeError"
  ELSE LET fields == matchFields(conditions, input, 1)
       IN IF fields # "true" THEN fields
          ELSE IF conditions.k \notin {"object", "array"} THEN "TypeError"
          ELSE LET all == IF HasKey(conditions, "all") /\ IsArray(Get(conditions, "all"))
                          THEN everyMatches(Get(conditions, "all").items, input, 1)
                          ELSE "true"
               IN IF all # "true" THEN all
                  ELSE IF HasKey(conditions, "any") /\ IsArray(Get(conditions, "any"))
                       THEN someMatches(Get(conditions, "any").items, input, 1)
                       ELSE "true"

(* ------------------------------------------------------------------ *)
(* evaluator.ts: evaluate and evaluateByType                           *)
(* A rule is [id, when, then]: id a string, when and then values.      *)
(* A call returns [threw, matched_rule, output]; threw is TRUE when it *)
(* raised a TypeError instead of returning.                            *)
(* ------------------------------------------------------------------ *)
Thrown == [threw |-> TRUE, matched_rule |-> Null, output |-> EmptyObj]

RECURSIVE evaluateFrom(_, _, _)
\* the loop of evaluate over rules, from rule i on
evaluateFrom(rules, input, i) ==
  IF i > Len(rules)
  THEN [threw |-> FALSE, matched_rule |-> Null, output |-> EmptyObj]
  ELSE LET m == matchConditions(rules[i].when, input)
       IN IF m = "TypeError" THEN Thrown
          ELSE IF m = "true"
            THEN [threw |-> FALSE, matched_rule |-> Str(rules[i].id),
                  output |-> Spread(rules[i].then)]
          ELSE evaluateFrom(rules, input, i + 1)

RECURSIVE matchedFrom(_, _, _)
\* the index of the rule the loop of evaluate returns at, from rule i on;
\* 0 when it returns at none
matchedFrom(rules, input, i) ==
  IF i > Len(rules) THEN 0
  ELSE LET m == matchConditions(rules[i].when, input)
       IN IF m = "TypeError" THEN 0
          ELSE IF m = "true" THEN i
          ELSE matchedFrom(rules, input, i + 1)

\* the output returned as the rule's own `then` object
outputOwnerRule(rules, i) == i

\* the owner of the output returned for rule i: { ...rule.then } is a new
\* object, no rule's
outputOwner(rules, i) == 0

\* the scan run from the last rule to the first: the last match wins
evaluateLastMatch(rules, input) ==
  evaluateFrom([i \in 1..Len(rules) |-> rules[Len(rules) + 1 - i]], input, 1)

\* the scan stopping one rule short of the end of the list
evaluateSkipLast(rules, input) ==
  evaluateFrom(SubSeq(rules, 1, Len(rules) - 1), input, 1)

evaluate(rules, input) == evaluateFrom(rules, input, 1)

\* the type given but the rules left unfiltered
evaluateUnfiltered(rules, ruleType, input) == evaluate(rules, input)

evaluateByType(rules, ruleType, input) ==
  IF \E i \in 1..Len(rules) : rules[i].when.k \in {"undefined", "null"}
  THEN Thrown
  ELSE LET keep(rule) == StrictEq(Prop(rule.when, "rule_type"), ruleType)
       IN evaluate(SelectSeq(rules, keep), input)

(* ------------------------------------------------------------------ *)
(* runner.ts: deepEqual, generateReason, runTest                       *)
(* ------------------------------------------------------------------ *)
RECURSIVE deepEqual(_, _)
deepEqual(a, b) ==
  IF StrictEq(a, b) THEN TRUE
  ELSE IF TypeOf(a) # TypeOf(b) THEN FALSE
  ELSE IF a.k = "null" \/ b.k = "null" THEN StrictEq(a, b)
  ELSE IF TypeOf(a) = "object"
    THEN /\ Len(a.keys) = Len(b.keys)
         /\ \A i \in 1..Len(a.keys) :
              /\ HasKey(b, a.keys[i])
              /\ deepEqual(Get(a, a.keys[i]), Get(b, a.keys[i]))
  ELSE FALSE

Digits == <<"0", "1", "2", "3", "4", "5", "6", "7", "8", "9">>

RECURSIVE NatToString(_)
NatToString(n) ==
  IF n < 10 THEN Digits[n + 1]
  ELSE NatToString(n \div 10) \o Digits[(n % 10) + 1]

\* String(n) for an integer n
IntToString(n) == IF n < 0 THEN "-" \o NatToString(-n) ELSE NatToString(n)

RECURSIVE Join(_, _)
\* parts.join(sep), parts a sequence of strings
Join(parts, sep) ==
  IF Len(parts) = 0 THEN ""
  ELSE IF Len(parts) = 1 THEN parts[1]
  ELSE parts[1] \o sep \o Join(Tail(parts), sep)

RECURSIVE TemplateString(_)
\* `${v}`: the string a template literal interpolates for v
TemplateString(v) ==
  CASE v.k = "undefined" -> "undefined"
    [] v.k = "null" -> "null"
    [] v.k = "boolean" -> IF v.n = 1 THEN "true" ELSE "false"
    [] v.k = "number" -> IF IsNaN(v) THEN "NaN" ELSE IntToString(v.n)
    [] v.k = "string" -> v.s
    [] v.k = "array" ->
         Join([i \in 1..Len(v.items) |->
                 IF v.items[i].k \in {"undefined", "null"} THEN ""
                 ELSE TemplateString(v.items[i])], ",")
    [] OTHER -> "[object Object]"

RECURSIVE JSONstringify(_)
\* `${JSON.stringify(v)}` (no string of the model needs escaping)
JSONstringify(v) ==
  CASE v.k = "undefined" -> "undefined"
    [] v.k = "null" -> "null"
    [] v.k = "boolean" -> IF v.n = 1 THEN "true" ELSE "false"
    [] v.k = "number" -> IF IsNaN(v) THEN "null" ELSE IntToString(v.n)
    [] v.k = "string" -> "\"" \o v.s \o "\""
    [] v.k = "array" ->
         "[" \o Join([i \in 1..Len(v.items) |->
                        IF v.items[i].k = "undefined" THEN "null"
                        ELSE JSONstringify(v.items[i])], ",") \o "]"
    [] OTHER ->
         LET defined(i) == v.items[i].k # "undefined"
             idx == SelectSeq([i \in 1..Len(v.keys) |-> i], defined)
         IN "{" \o Join([j \in 1..Len(idx) |->
                           "\"" \o v.keys[idx[j]] \o "\":"
                             \o JSONstringify(v.items[idx[j]])], ",") \o "}"

\* rules.indexOf(rules.find((r) => r.id === id)), 0-based; -1 when find
\* returns undefined
findIndex(rules, id) ==
  IF \E i \in 1..Len(rules) : StrictEq(Str(rules[i].id), id)
  THEN (CHOOSE i \in 1..Len(rules) :
          /\ StrictEq(Str(rules[i].id), id)
          /\ \A j \in 1..(i - 1) : ~StrictEq(Str(rules[j].id), id)) - 1
  ELSE -1

RECURSIVE firstMismatchAnyKey(_, _, _)
\* the loop without the exclusion of the matched_rule entry
firstMismatchAnyKey(expected, output, i) ==
  IF i > Len(expected.keys) THEN 0
  ELSE IF ~deepEqual(expected.items[i], Get(output, expected.keys[i])) THEN i
  ELSE firstMismatchAnyKey(expected, output, i + 1)

RECURSIVE firstMismatchLast(_, _, _)
\* the loop run to its end: the last entry that differs, 0 when there is none
firstMismatchLast(expected, output, i) ==
  IF i > Len(expected.keys) THEN 0
  ELSE LET later == firstMismatchLast(expected, output, i + 1)
       IN IF later > 0 THEN later
          ELSE IF expected.keys[i] # "matched_rule"
                  /\ ~deepEqual(expected.items[i], Get(output, expected.keys[i]))
            THEN i
          ELSE 0

RECURSIVE firstMismatch(_, _, _)
\* the loops over the expectation's entries other than matched_rule, from
\* entry i on: the index of the first entry whose value is not deepEqual to
\* output[key], 0 when there is none
firstMismatch(expected, output, i) ==
  IF i > Len(expected.keys) THEN 0
  ELSE IF expected.keys[i] # "matched_rule"
          /\ ~deepEqual(expected.items[i], Get(output, expected.keys[i]))
    THEN i
  ELSE firstMismatch(expected, output, i + 1)

\* generateReason with one slip, named by bug:
\*   "truthy"   the expected rule tested by truthiness, not against undefined
\*   "noNull"   no separate case for an actual matched_rule of null
\*   "flipped"  the ordering case taken when the actual rule comes later
reasonVariant(expected, actual, rules, bug) ==
  LET want == Get(expected, "matched_rule")
      got == actual.matched_rule
      asked == IF bug = "truthy" THEN Truthy(want) ELSE want # Undef
  IN IF asked /\ ~StrictEq(want, got)
     THEN IF got = Null /\ bug # "noNull"
          THEN "No rule matched the input. Check your rule conditions."
          ELSE LET expectedIndex == findIndex(rules, want)
                   actualIndex == findIndex(rules, got)
                   before == IF bug = "flipped" THEN actualIndex > expectedIndex
                             ELSE actualIndex < expectedIndex
               IN IF expectedIndex >= 0 /\ actualIndex >= 0 /\ before
                  THEN "Rule '" \o TemplateString(got) \o "' matched before '"
                         \o TemplateString(want) \o "'. Check rule ordering."
                  ELSE "Expected rule '" \o TemplateString(want)
                         \o "' to match, but '" \o TemplateString(got)
                         \o "' matched instead."
     ELSE LET i == firstMismatch(expected, actual.output, 1)
          IN IF i > 0
             THEN "Output mismatch: expected " \o expected.keys[i] \o "="
                    \o JSONstringify(expected.items[i]) \o ", got "
                    \o JSONstringify(Get(actual.output, expected.keys[i]))
             ELSE "Unknown mismatch"

generateReasonTruthy(expected, actual, rules) ==
  reasonVariant(expected, actual, rules, "truthy")

generateReasonNoNull(expected, actual, rules) ==
  reasonVariant(expected, actual, rules, "noNull")

generateReasonFlipped(expected, actual, rules) ==
  reasonVariant(expected, actual, rules, "flipped")

generateReason(expected, actual, rules) ==
  LET want == Get(expected, "matched_rule")
      got == actual.matched_rule
  IN IF want # Undef /\ ~StrictEq(want, got)
     THEN IF got = Null
          THEN "No rule matched the input. Check your rule conditions."
          ELSE LET expectedIndex == findIndex(rules, want)
                   actualIndex == findIndex(rules, got)
               IN IF expectedIndex >= 0 /\ actualIndex >= 0
                     /\ actualIndex < expectedIndex
                  THEN "Rule '" \o TemplateString(got) \o "' matched before '"
                         \o TemplateString(want) \o "'. Check rule ordering."
                  ELSE "Expected rule '" \o TemplateString(want)
                         \o "' to match, but '" \o TemplateString(got)
                         \o "' matched instead."
     ELSE LET i == firstMismatch(expected, actual.output, 1)
          IN IF i > 0
             THEN "Output mismatch: expected " \o expected.keys[i] \o "="
                    \o JSONstringify(expected.items[i]) \o ", got "
                    \o JSONstringify(Get(actual.output, expected.keys[i]))
             ELSE "Unknown mismatch"

\* runTest with one slip, named by bug:
\*   "inverted"  the reason attached to the passing result, not the failing
\*   "exact"     the output required to have no key beyond the expected ones
runTestVariant(test, rules, file, bug) ==
  LET failed == [threw |-> TRUE, file |-> file, name |-> test.name,
                 passed |-> FALSE, input |-> test.input,
                 expected |-> test.expect, actual |-> Thrown, reason |-> Undef]
  IN IF test.input.k \in {"undefined", "null"} THEN failed
     ELSE LET ruleType == Prop(test.input, "rule_type")
              actual == IF Truthy(ruleType)
                        THEN evaluateByType(rules, ruleType, test.input)
                        ELSE evaluate(rules, test.input)
          IN IF actual.threw \/ test.expect.k \in {"undefined", "null"}
             THEN failed
             ELSE LET expect == Entries(test.expect)
                      expectedMatchedRule == Get(test.expect, "matched_rule")
                      matchedRuleCorrect ==
                        \/ expectedMatchedRule = Undef
                        \/ StrictEq(expectedMatchedRule, actual.matched_rule)
                      outputCorrect ==
                        /\ firstMismatch(expect, actual.output, 1) = 0
                        /\ bug = "exact" =>
                             \A i \in 1..Len(actual.output.keys) :
                               HasKey(expect, actual.output.keys[i])
                      passed == matchedRuleCorrect /\ outputCorrect
                      reason == Str(generateReason(test.expect, actual, rules))
                  IN [threw |-> FALSE, file |-> file, name |-> test.name,
                      passed |-> passed, input |-> test.input,
                      expected |-> test.expect, actual |-> actual,
                      reason |-> IF bug = "inverted"
                                 THEN (IF passed THEN reason ELSE Undef)
                                 ELSE (IF passed THEN Undef ELSE reason)]

runTestReasonInverted(test, rules, file) == runTestVariant(test, rules, file, "inverted")

runTestExactOutput(test, rules, file) == runTestVariant(test, rules, file, "exact")

\* A test case is [name, input, expect].  runTest returns
\* [threw, file, name, passed, input, expected, actual, reason]; reason is
\* Undef or a string value.
runTest(test, rules, file) ==
  LET failed == [threw |-> TRUE, file |-> file, name |-> test.name,
                 passed |-> FALSE, input |-> test.input,
                 expected |-> test.expect, actual |-> Thrown, reason |-> Undef]
  IN IF test.input.k \in {"undefined", "null"} THEN failed
     ELSE LET ruleType == Prop(test.input, "rule_type")
              actual == IF Truthy(ruleType)
                        THEN evaluateByType(rules, ruleType, test.input)
                        ELSE evaluate(rules, test.input)
          IN IF actual.threw \/ test.expect.k \in {"undefined", "null"}
             THEN failed
             ELSE LET expect == Entries(test.expect)
                      expectedMatchedRule == Get(test.expect, "matched_rule")
                      matchedRuleCorrect ==
                        \/ expectedMatchedRule = Undef
                        \/ StrictEq(expectedMatchedRule, actual.matched_rule)
                      outputCorrect == firstMismatch(expect, actual.output, 1) = 0
                      passed == matchedRuleCorrect /\ outputCorrect
                  IN [threw |-> FALSE, file |-> file, name |-> test.name,
                      passed |-> passed, input |-> test.input,
                      expected |-> test.expect, actual |-> actual,
                      reason |-> IF passed THEN Undef
                                 ELSE Str(generateReason(test.expect, actual, rules))]

\* `expected` on return, had `delete` been applied to it and not to a copy
generateReasonInPlace(expected, actual, rules) ==
  LET want == Get(expected, "matched_rule")
  IN IF want # Undef /\ ~StrictEq(want, actual.matched_rule) THEN expected
     ELSE Delete(expected, "matched_rule")

\* `expected` as generateReason leaves it.  Its one write is the delete of
\* line 64, and that acts on expectedOutput, the copy made on line 63.
generateReasonExpected(expected, actual, rules) ==
  LET want == Get(expected, "matched_rule")
  IN IF want # Undef /\ ~StrictEq(want, actual.matched_rule) THEN expected
     ELSE LET expectedOutput == Delete(Spread(expected), "matched_rule")
          IN expected

\* `rules` as evaluateByType leaves it: filter() builds filteredRules, a new
\* array, and evaluate only reads
evaluateByTypeRules(rules, ruleType) ==
  LET keep(rule) == StrictEq(Prop(rule.when, "rule_type"), ruleType)
      filteredRules == SelectSeq(rules, keep)
  IN rules

\* the arguments of runTest as it leaves them, returned being what it
\* returns: expectedOutput of lines 88-93 is a new object, and
\* generateReason is called for a failed test only
runTestArguments(test, rules, returned) ==
  LET ruleType == Prop(test.input, "rule_type")
  IN [rules |-> IF test.input.k \notin {"undefined", "null"} /\ Truthy(ruleType)
                THEN evaluateByTypeRules(rules, ruleType) ELSE rules,
      input |-> test.input,
      expect |-> IF returned.threw \/ returned.passed THEN test.expect
                 ELSE generateReasonExpected(test.expect, returned.actual, rules)]

(* ------------------------------------------------------------------ *)
(* The values the specifications draw from                             *)
(* ------------------------------------------------------------------ *)
MaxRules == 3
MaxDepth == 3

\* an object from a sequence of <<key, value>> pairs, leaving out the
\* pairs whose value is undefined (a YAML mapping has no such entries)
Record(pairs) ==
  LET present(e) == e[2] # Undef
      kept == SelectSeq(pairs, present)
  IN Obj([i \in 1..Len(kept) |-> kept[i][1]], [i \in 1..Len(kept) |-> kept[i][2]])

\* a comparison-operator object with the given bounds (Undef: no such key)
Cmp(gte, lte, gt, lt) ==
  Record(<<<<"gte", gte>>, <<"lte", lte>>, <<"gt", gt>>, <<"lt", lt>>>>)

In(list) == Obj(<<"in">>, <<Arr(list)>>)

TierValues ==
  {Undef, Null, Bool(TRUE), Bool(FALSE), Num(1), Num(100), NaN,
   Str("100"), Str("true"), Str("vip"), Str("VIP"), Str("")}

QValues ==
  {Undef, Null, NaN, Str("10"), Bool(TRUE),
   Num(0), Num(9), Num(10), Num(11), Num(99), Num(100), Num(101)}

TypeValues == {Undef, Str("pricing"), Str("")}

\* the rule types evaluateByType is called with
RuleTypes == {Str("pricing"), Str("access")}

MkInput(tier, q, type) ==
  Record(<<<<"tier", tier>>, <<"q", q>>, <<"rule_type", type>>>>)

\* inputs for the matcher: every tier value, every q value, one at a time
MatchInputs ==
  {MkInput(t, q, Undef) : t \in TierValues, q \in {Undef, Num(10)}}
    \cup {MkInput(t, q, Undef) : t \in {Undef, Str("vip")}, q \in QValues}

\* inputs for rule lists and tests
EvalInputs ==
  {MkInput(t, q, ty) : t \in {Undef, Str("vip"), Str("std")},
                       q \in {Undef, Num(10)}, ty \in TypeValues}

\* scalar constraints: string, number, boolean, null
ScalarConstraints == TierValues \ {Undef}

\* every non-empty subset of gte, lte, gt, lt, lower bounds 10 and upper
\* bounds 100, and a range with a NaN bound
CmpConstraints ==
  ({Cmp(g, l, gt, lt) : g \in {Undef, Num(10)}, l \in {Undef, Num(100)},
                         gt \in {Undef, Num(10)}, lt \in {Undef, Num(100)}}
     \ {EmptyObj})
    \cup {Cmp(NaN, Undef, Undef, Undef), Cmp(Num(100), Num(10), Undef, Undef)}

InConstraints ==
  {In(<<>>), In(<<Str("vip")>>), In(<<Null>>), In(<<NaN>>), In(<<Num(100)>>),
   In(<<Bool(TRUE)>>), In(<<Str("vip"), Num(1), Bool(TRUE)>>),
   In(<<Str("100"), Null>>), In(<<Str("true"), Num(100), Bool(FALSE)>>)}

\* single-field conditions
FieldConditions ==
  {Obj(<<"tier">>, <<c>>) : c \in ScalarConstraints \cup InConstraints}
    \cup {Obj(<<"q">>, <<c>>) : c \in CmpConstraints \cup InConstraints}
    \cup {Obj(<<"tier", "q">>, <<c, d>>) :
            c \in {Str("vip"), In(<<Str("vip"), Num(1), Bool(TRUE)>>)},
            d \in {Num(10), Cmp(Num(10), Num(100), Undef, Undef)}}

LeafVip == Obj(<<"tier">>, <<Str("vip")>>)
LeafQ == Obj(<<"q">>, <<Cmp(Num(10), Undef, Undef, Undef)>>)

TreeLeaves == {LeafVip, LeafQ, EmptyObj}

\* the trees one level above t
Wrap(t) ==
  {Obj(<<"all">>, <<Arr(<<LeafQ, t>>)>>),
   Obj(<<"any">>, <<Arr(<<LeafVip, t>>)>>),
   Obj(<<"any">>, <<Arr(<<t>>)>>),
   Obj(<<"tier", "all">>, <<Str("vip"), Arr(<<t>>)>>),
   Obj(<<"any", "q">>, <<Arr(<<t, LeafVip>>), Num(10)>>),
   Obj(<<"all", "any">>, <<Arr(<<t>>), Arr(<<LeafVip, LeafQ>>)>>)}

RECURSIVE Trees(_)
\* condition trees nested at most d levels deep
Trees(d) ==
  IF d = 0
  THEN TreeLeaves \cup {Obj(<<"all">>, <<Arr(<<>>)>>), Obj(<<"any">>, <<Arr(<<>>)>>)}
  ELSE Trees(0) \cup UNION {Wrap(t) : t \in Trees(d - 1)}

Then30 == Obj(<<"pct">>, <<Num(30)>>)

Rule(id, when, then) == [id |-> id, when |-> when, then |-> then]

\* one-rule lists, one per condition
MatchRuleLists ==
  {<<Rule("r1", c, Then30)>> : c \in FieldConditions \cup Trees(MaxDepth)}

Limits == Obj(<<"a", "b">>, <<Num(1), Num(2)>>)
LimitsReordered == Obj(<<"b", "a">>, <<Num(2), Num(1)>>)

\* the rules that rule lists are made of
RulePool ==
  {Rule("A", LeafVip, Then30),
   Rule("B", LeafQ, Obj(<<"pct", "tags">>, <<Num(10), Arr(<<Str("bulk")>>)>>)),
   Rule("C", EmptyObj, Obj(<<"pct">>, <<Num(0)>>)),
   Rule("D", Obj(<<"rule_type", "tier">>, <<Str("pricing"), Str("vip")>>),
        Obj(<<"pct", "limits">>, <<Num(20), Limits>>)),
   Rule("E", Obj(<<"rule_type">>, <<Str("access")>>),
        Obj(<<"allow">>, <<Bool(TRUE)>>)),
   Rule("F", Obj(<<"rule_type">>, <<In(<<Str("pricing")>>)>>),
        Obj(<<"pct">>, <<Num(5)>>)),
   Rule("G", Obj(<<"all">>, <<Arr(<<Obj(<<"rule_type">>, <<Str("pricing")>>)>>)>>),
        Obj(<<"pct">>, <<Num(7)>>))}

RECURSIVE ListsUpTo(_, _)
\* the sequences of at most n elements of S
ListsUpTo(S, n) ==
  IF n = 0 THEN {<<>>}
  ELSE LET shorter == ListsUpTo(S, n - 1)
       IN shorter \cup {Append(l, x) : l \in shorter, x \in S}

RuleLists == ListsUpTo(RulePool, MaxRules)

\* what tests expect
Expectations ==
  {EmptyObj,
   Obj(<<"matched_rule">>, <<Str("A")>>),
   Obj(<<"matched_rule">>, <<Str("C")>>),
   Obj(<<"matched_rule">>, <<Str("Z")>>),
   Obj(<<"matched_rule">>, <<Null>>),
   Obj(<<"pct">>, <<Num(30)>>),
   Obj(<<"matched_rule", "pct">>, <<Str("A"), Num(0)>>),
   Obj(<<"pct", "matched_rule">>, <<Num(30), Str("B")>>),
   Obj(<<"matched_rule", "pct", "limits">>, <<Str("D"), Num(20), LimitsReordered>>),
   Obj(<<"tags", "pct">>, <<Arr(<<Str("bulk")>>), Num(10)>>),
   Obj(<<"allow">>, <<Null>>)}

Tests == {[name |-> "t1", input |-> i, expect |-> e] : i \in EvalInputs, e \in Expectations}

TestFile == "tests/a.yaml"

(* ------------------------------------------------------------------ *)
(* loader.ts and the check command (cli.ts, src/unnamed/part_000)      *)
(* A file on disk is [parses, doc]: whether the YAML parser accepts    *)
(* its text, and the document it parses to.                            *)
(* ------------------------------------------------------------------ *)
\* the paths of the model, in the order Array.prototype.sort() gives them
\* (ascending UTF-16 code units)
PathOrder ==
  <<"logic/rules/a.yaml", "logic/rules/b.yml", "logic/rules/notes.txt",
    "logic/rules/sub/c.yaml", "logic/tests/a.yaml", "logic/tests/b.yml",
    "logic/tests/sub/c.yaml">>

RulesDir == "logic/rules"
TestsDir == "logic/tests"

\* whether path lies in dir or in a directory below it
InDir(path, dir) ==
  IF path \in {PathOrder[i] : i \in 1..4} THEN dir = RulesDir ELSE dir = TestsDir

\* entry.name.endsWith('.yaml') || entry.name.endsWith('.yml')
IsYamlName(path) == path # "logic/rules/notes.txt"

PathBefore(p, q) ==
  \E i, j \in 1..Len(PathOrder) : PathOrder[i] = p /\ PathOrder[j] = q /\ i < j

\* the files found, left in descending order
findYamlFilesUnsorted(dir, disk) ==
  LET files == {path \in DOMAIN disk : InDir(path, dir) /\ IsYamlName(path)}
  IN IF files = {} THEN <<>>
     ELSE CHOOSE seq \in [1..Cardinality(files) -> files] :
            \A i, j \in 1..Cardinality(files) : i < j => PathBefore(seq[j], seq[i])

\* the YAML files in dir and below it, sorted; none when dir does not exist
findYamlFiles(dir, disk) ==
  LET files == {path \in DOMAIN disk : InDir(path, dir) /\ IsYamlName(path)}
  IN IF files = {} THEN <<>>
     ELSE CHOOSE seq \in [1..Cardinality(files) -> files] :
            \A i, j \in 1..Cardinality(files) : i < j => PathBefore(seq[i], seq[j])

\* what a load returns: a ValidationError (ok FALSE) or the loaded records
ValidationError(file, message) ==
  [ok |-> FALSE, file |-> file, message |-> message, records |-> <<>>]

Loaded(file, records) ==
  [ok |-> TRUE, file |-> file, message |-> "", records |-> records]

\* the checks of loadRuleFile on the rule at index i (from 0): the message
\* of the error it returns, "" when it returns none
ruleError(rule, i) ==
  IF rule.k \in {"undefined", "null"}
  THEN "Failed to parse YAML: Cannot read properties of " \o TemplateString(rule)
         \o " (reading 'id')"
  ELSE IF ~Truthy(Prop(rule, "id")) \/ TypeOf(Prop(rule, "id")) # "string"
    THEN "Rule at index " \o NatToString(i) \o " is missing a valid \"id\" field"
  ELSE IF Prop(rule, "when") = Undef
    THEN "Rule \"" \o TemplateString(Prop(rule, "id")) \o "\" is missing a \"when\" field"
  ELSE IF Prop(rule, "then") = Undef \/ TypeOf(Prop(rule, "then")) # "object"
    THEN "Rule \"" \o TemplateString(Prop(rule, "id"))
           \o "\" is missing a valid \"then\" field"
  ELSE ""

\* the checks of loadTestFile on the test at index i (from 0)
testError(test, i) ==
  IF test.k \in {"undefined", "null"}
  THEN "Failed to parse YAML: Cannot read properties of " \o TemplateString(test)
         \o " (reading 'name')"
  ELSE IF ~Truthy(Prop(test, "name")) \/ TypeOf(Prop(test, "name")) # "string"
    THEN "Test at index " \o NatToString(i) \o " is missing a valid \"name\" field"
  ELSE IF Prop(test, "input") = Undef \/ TypeOf(Prop(test, "input")) # "object"
    THEN "Test \"" \o TemplateString(Prop(test, "name"))
           \o "\" is missing a valid \"input\" field"
  ELSE IF Prop(test, "expect") = Undef \/ TypeOf(Prop(test, "expect")) # "object"
    THEN "Test \"" \o TemplateString(Prop(test, "name"))
           \o "\" is missing a valid \"expect\" field"
  ELSE ""

\* the part of both loaders before the loop over the records: the message
\* of the error returned, "" when the loop is reached
documentError(content, listKey) ==
  IF ~content.parses THEN "Failed to parse YAML: parse error"
  ELSE IF ~Truthy(content.doc) \/ TypeOf(content.doc) # "object"
    THEN "File is empty or not a valid YAML object"
  ELSE IF ~StrictEq(Prop(content.doc, "version"), Num(1))
    THEN "Unsupported version: " \o TemplateString(Prop(content.doc, "version"))
           \o ". Expected version: 1"
  ELSE IF ~IsArray(Prop(content.doc, listKey))
    THEN "Missing or invalid \"" \o listKey \o "\" array"
  ELSE ""

\* a rule of a parsed document, as the record the evaluator is modelled on
AsRule(v) == Rule(Get(v, "id").s, Get(v, "when"), Get(v, "then"))

\* a test of a parsed document, as the record the runner is modelled on
AsTest(v) == [name |-> Get(v, "name").s, input |-> Get(v, "input"),
              expect |-> Get(v, "expect")]

\* loadRuleFile keeping the rules that come before the first invalid one
loadRuleFilePartial(filePath, disk) ==
  LET content == disk[filePath]
      list == Prop(content.doc, "rules").items
      good(v) == documentError(content, "rules") = "" /\ ruleError(v, 0) = ""
  IN IF documentError(content, "rules") # ""
     THEN ValidationError(filePath, documentError(content, "rules"))
     ELSE LET valid == SelectSeq(list, good)
          IN Loaded(filePath, [i \in 1..Len(valid) |-> AsRule(valid[i])])

loadRuleFile(filePath, disk) ==
  LET content == disk[filePath]
      error == documentError(content, "rules")
  IN IF error # "" THEN ValidationError(filePath, error)
     ELSE LET list == Prop(content.doc, "rules").items
              bad == {i \in 1..Len(list) : ruleError(list[i], i - 1) # ""}
              first == CHOOSE i \in bad : \A j \in bad : i <= j
          IN IF bad # {}
             THEN ValidationError(filePath, ruleError(list[first], first - 1))
             ELSE Loaded(filePath, [i \in 1..Len(list) |-> AsRule(list[i])])

loadTestFile(filePath, disk) ==
  LET content == disk[filePath]
      error == documentError(content, "tests")
  IN IF error # "" THEN ValidationError(filePath, error)
     ELSE LET list == Prop(content.doc, "tests").items
              bad == {i \in 1..Len(list) : testError(list[i], i - 1) # ""}
              first == CHOOSE i \in bad : \A j \in bad : i <= j
          IN IF bad # {}
             THEN ValidationError(filePath, testError(list[first], first - 1))
             ELSE Loaded(filePath, [i \in 1..Len(list) |-> AsTest(list[i])])

\* 'message' in result
isValidationError(loaded) == ~loaded.ok

\* tests.map((test) => runTest(test, rules, file))
runTests(tests, rules, file) ==
  [i \in 1..Len(tests) |-> runTest(tests[i], rules, file)]

\* the exit code without the error flag
exitCodeZero(hasErrors) == 0

\* process.exit(hasErrors ? 1 : 0)
exitCode(hasErrors) == IF hasErrors THEN 1 ELSE 0

(* ------------------------------------------------------------------ *)
(* The state: the loaded rule list, the last call made on it and what  *)
(* that call returned.                                                 *)
(* ------------------------------------------------------------------ *)
\* kept is what a caller holds of one earlier evaluate call: the input, the
\* value as returned, the output object (which the caller may change) and
\* owner, the index of the rule whose `then` is that very object, 0 when it
\* is an object of its own.
VARIABLES rules, call, result, kept, cli

vars == <<rules, call, result, kept, cli>>

NoKept == [input |-> Undef, returned |-> Undef, output |-> Undef, owner |-> 0]

NoTest == [name |-> "", input |-> Undef, expect |-> Undef]
\* after is what the call left of the input and the expectation it was given
NoAfter == [input |-> Undef, expect |-> Undef]
NoCall == [op |-> "none", input |-> Undef, ruleType |-> Undef, test |-> NoTest,
           after |-> NoAfter]

\* cli is the run of the check command: NoCli when none is running
NoCli == [pc |-> "none"]

\* a call is made when the previous one has returned
Idle == call.op = "none"

Evaluate(input) ==
  /\ Idle
  /\ call' = [op |-> "evaluate", input |-> input, ruleType |-> Undef, test |-> NoTest,
              after |-> [input |-> input, expect |-> Undef]]
  /\ result' = evaluate(rules, input)
  /\ UNCHANGED <<rules, kept, cli>>

EvaluateByType(ruleType, input) ==
  /\ Idle
  /\ call' = [op |-> "evaluateByType", input |-> input, ruleType |-> ruleType,
              test |-> NoTest, after |-> [input |-> input, expect |-> Undef]]
  /\ result' = evaluateByType(rules, ruleType, input)
  /\ rules' = evaluateByTypeRules(rules, ruleType)
  /\ UNCHANGED <<kept, cli>>

RunTest(test) ==
  /\ Idle
  /\ result' = runTest(test, rules, TestFile)
  /\ call' = [op |-> "runTest", input |-> test.input, ruleType |-> Undef,
              test |-> test,
              after |-> [input |-> runTestArguments(test, rules, result').input,
                         expect |-> runTestArguments(test, rules, result').expect]]
  /\ rules' = runTestArguments(test, rules, result').rules
  /\ UNCHANGED <<kept, cli>>

\* the caller takes the returned value; the engine keeps nothing of the call
Return ==
  /\ ~Idle
  /\ call' = NoCall
  /\ result' = Undef
  /\ UNCHANGED <<rules, kept, cli>>

\* the caller takes the value returned by evaluate and keeps it
Keep ==
  /\ call.op = "evaluate"
  /\ ~result.threw
  /\ kept = NoKept
  /\ kept' = [input |-> call.input, returned |-> result, output |-> result.output,
              owner |-> LET i == matchedFrom(rules, call.input, 1)
                        IN IF i = 0 THEN 0 ELSE outputOwner(rules, i)]
  /\ call' = NoCall
  /\ result' = Undef
  /\ UNCHANGED <<rules, cli>>

\* what a caller does to the top-level keys of an output it holds
Changes == {"add", "remove", "replace"}

Changed(output, change) ==
  CASE change = "add" ->
         Obj(Append(output.keys, "extra"), Append(output.items, Num(1)))
    [] change = "remove" -> Obj(Tail(output.keys), Tail(output.items))
    [] OTHER -> Obj(output.keys, [output.items EXCEPT ![1] = Null])

\* the caller adds, removes or replaces a top-level key of the output it
\* holds; the rule that owns that object, if any, changes with it
MutateKept(change) ==
  /\ kept # NoKept
  /\ change = "add" => ~HasKey(kept.output, "extra")
  /\ change = "remove" => Len(kept.output.keys) > 0
  /\ change = "replace" => (Len(kept.output.keys) > 0 /\ kept.output.items[1] # Null)
  /\ kept' = [kept EXCEPT !.output = Changed(kept.output, change)]
  /\ rules' = IF kept.owner = 0 THEN rules
              ELSE [rules EXCEPT ![kept.owner].then = Changed(kept.output, change)]
  /\ UNCHANGED <<call, result, cli>>

\* Spec: rule lists and tests
Init ==
  /\ rules \in RuleLists
  /\ call = NoCall
  /\ result = Undef
  /\ kept = NoKept
  /\ cli = NoCli

Next ==
  \/ \E input \in EvalInputs : Evaluate(input)
  \/ \E ruleType \in RuleTypes, input \in EvalInputs :
       EvaluateByType(ruleType, input)
  \/ \E test \in Tests : RunTest(test)
  \/ Return

Spec == Init /\ [][Next]_vars

\* SpecMatch: one rule, every condition shape, against every input value
InitMatch ==
  /\ rules \in MatchRuleLists
  /\ call = NoCall
  /\ result = Undef
  /\ kept = NoKept
  /\ cli = NoCli

NextMatch ==
  \/ \E input \in MatchInputs : Evaluate(input)
  \/ Return

SpecMatch == InitMatch /\ [][NextMatch]_vars

\* SpecCalls: calls in any order on one rule list, by a caller that keeps
\* and changes what one call returned
MaxCallRules == 2

CallRules ==
  {Rule("A", LeafVip, Then30),
   Rule("C", EmptyObj, Obj(<<"pct">>, <<Num(0)>>)),
   Rule("D", Obj(<<"rule_type", "tier">>, <<Str("pricing"), Str("vip")>>),
        Obj(<<"pct", "limits">>, <<Num(20), Limits>>))}

CallInputs ==
  {MkInput(t, Undef, ty) : t \in {Undef, Str("vip")}, ty \in {Undef, Str("pricing")}}

CallTests ==
  {[name |-> "t1", input |-> i, expect |-> e] :
     i \in CallInputs,
     e \in {Obj(<<"matched_rule">>, <<Str("A")>>), Obj(<<"pct">>, <<Num(30)>>)}}

InitCalls ==
  /\ rules \in ListsUpTo(CallRules, MaxCallRules)
  /\ call = NoCall
  /\ result = Undef
  /\ kept = NoKept
  /\ cli = NoCli

NextCalls ==
  \/ \E input \in CallInputs : Evaluate(input)
  \/ \E input \in CallInputs : EvaluateByType(Str("pricing"), input)
  \/ \E test \in CallTests : RunTest(test)
  \/ Keep
  \/ \E change \in Changes : MutateKept(change)
  \/ Return

SpecCalls == InitCalls /\ [][NextCalls]_vars

\* SpecEqual: deepEqual on every pair of values, through a test that
\* expects the value b of a rule whose output holds the value a
JsonValues ==
  {Null, Bool(TRUE), Bool(FALSE), Num(0), Num(1), NaN, Str(""), Str("1"), Str("a"),
   Arr(<<>>), Arr(<<Num(1)>>), Arr(<<Num(1), Num(2)>>), Arr(<<Num(2), Num(1)>>),
   Arr(<<Null>>), Arr(<<Arr(<<Num(1)>>)>>),
   EmptyObj, Obj(<<"a">>, <<Num(1)>>), Obj(<<"b">>, <<Num(1)>>),
   Obj(<<"a">>, <<Null>>), Obj(<<"0">>, <<Num(1)>>), Limits, LimitsReordered,
   Obj(<<"a", "b">>, <<Num(2), Num(1)>>), Obj(<<"a">>, <<Obj(<<"b">>, <<Num(1)>>)>>),
   Obj(<<"a">>, <<Arr(<<Num(1)>>)>>), Obj(<<"a">>, <<EmptyObj>>),
   Obj(<<"a">>, <<Arr(<<>>)>>)}

InitEqual ==
  /\ rules \in {<<Rule("r1", EmptyObj, Obj(<<"v">>, <<a>>))>> : a \in JsonValues}
  /\ call = NoCall
  /\ result = Undef
  /\ kept = NoKept
  /\ cli = NoCli

NextEqual ==
  \/ \E b \in JsonValues :
       RunTest([name |-> "t1", input |-> EmptyObj, expect |-> Obj(<<"v">>, <<b>>)])
  \/ Return

SpecEqual == InitEqual /\ [][NextEqual]_vars

\* SpecShapes: one rule whose condition is not of the documented shape
ShapeFieldConstraints ==
  {Obj(<<"in">>, <<Str("vip")>>), Obj(<<"in">>, <<Null>>),
   Obj(<<"in">>, <<Obj(<<"0">>, <<Str("vip")>>)>>),
   Obj(<<"equals">>, <<Str("vip")>>), EmptyObj,
   Arr(<<Str("vip")>>), Arr(<<>>)}

ShapeBooleanValues ==
  {Str("vip"), Num(5), Null, Bool(TRUE), LeafVip, EmptyObj}

ShapeElements == {Null, Num(5), Str(""), Str("vip"), Bool(TRUE), Arr(<<>>)}

ShapeConditions ==
  {Obj(<<"tier">>, <<c>>) : c \in ShapeFieldConstraints}
    \cup {Obj(<<key>>, <<v>>) : key \in {"all", "any"}, v \in ShapeBooleanValues}
    \cup {Obj(<<key, "tier">>, <<v, Str("vip")>>) :
            key \in {"all", "any"}, v \in ShapeBooleanValues}
    \cup {Obj(<<"all", "any", "q">>, <<LeafVip, Null, Num(10)>>),
          Obj(<<"all", "any">>, <<Arr(<<LeafVip>>), Str("vip")>>),
          Obj(<<"any", "all">>, <<Arr(<<LeafVip>>), Num(5)>>)}
    \cup {Obj(<<key>>, <<Arr(<<e>>)>>) : key \in {"all", "any"}, e \in ShapeElements}
    \cup {Obj(<<"any">>, <<Arr(<<LeafVip, Null>>)>>),
          Obj(<<"all">>, <<Arr(<<LeafQ, Num(5)>>)>>)}
    \cup {Null, Num(5), Str(""), Str("vip"), Bool(TRUE), Arr(<<>>)}

ShapeInputs ==
  {MkInput(t, q, Undef) : t \in {Undef, Null, Str("vip"), Str("std")},
                          q \in {Undef, Num(10)}}

InitShapes ==
  /\ rules \in {<<Rule("r1", c, Then30)>> : c \in ShapeConditions}
  /\ call = NoCall
  /\ result = Undef
  /\ kept = NoKept
  /\ cli = NoCli

NextShapes ==
  \/ \E input \in ShapeInputs : Evaluate(input)
  \/ Return

SpecShapes == InitShapes /\ [][NextShapes]_vars

(* ------------------------------------------------------------------ *)
(* The check command: the files on disk and the run                    *)
(* ------------------------------------------------------------------ *)
\* the documents rule files hold
RuleValue(id, when, then) == Obj(<<"id", "when", "then">>, <<id, when, then>>)

RuleDocument(version, list) == Obj(<<"version", "rules">>, <<version, Arr(list)>>)

ValueA == RuleValue(Str("A"), LeafVip, Then30)
ValueA2 == RuleValue(Str("A"), EmptyObj, Obj(<<"pct">>, <<Num(10)>>))
ValueC == RuleValue(Str("C"), EmptyObj, Obj(<<"pct">>, <<Num(0)>>))

RuleContents ==
  {[parses |-> TRUE, doc |-> RuleDocument(Num(1), <<ValueA>>)],
   [parses |-> TRUE, doc |-> RuleDocument(Num(1), <<ValueA, ValueC>>)],
   [parses |-> TRUE, doc |-> RuleDocument(Num(1), <<ValueA, ValueA2>>)],
   [parses |-> TRUE,
    doc |-> RuleDocument(Num(1), <<ValueC, RuleValue(Str(""), EmptyObj, EmptyObj)>>)],
   [parses |-> TRUE,
    doc |-> RuleDocument(Num(1), <<RuleValue(Str("N"), Null, Then30)>>)],
   [parses |-> FALSE, doc |-> Undef]}

TestValue(name, input, expect) ==
  Obj(<<"name", "input", "expect">>, <<name, input, expect>>)

TestDocument(list) == Obj(<<"version", "tests">>, <<Num(1), Arr(list)>>)

TestVip ==
  TestValue(Str("vip"), Obj(<<"tier">>, <<Str("vip")>>),
            Obj(<<"matched_rule">>, <<Str("A")>>))
TestNone == TestValue(Str("none"), EmptyObj, Obj(<<"matched_rule">>, <<Null>>))
TestAny == TestValue(Str("any"), EmptyObj, EmptyObj)

TestContents ==
  {[parses |-> TRUE, doc |-> TestDocument(<<TestVip>>)],
   [parses |-> TRUE, doc |-> TestDocument(<<TestAny, TestNone>>)],
   [parses |-> TRUE, doc |-> TestDocument(<<TestValue(Str("null"), Null, EmptyObj)>>)],
   [parses |-> TRUE, doc |-> Obj(<<"version">>, <<Num(1)>>)],
   [parses |-> TRUE, doc |-> TestDocument(<<TestAny, TestValue(Str(""), EmptyObj, EmptyObj)>>)]}

MaxRuleFiles == 2
MaxTestFiles == 2

RuleYamlPaths == {"logic/rules/a.yaml", "logic/rules/b.yml", "logic/rules/sub/c.yaml"}
TestYamlPaths == {"logic/tests/a.yaml", "logic/tests/b.yml", "logic/tests/sub/c.yaml"}

\* the file of the rules directory that is not a YAML file, holding rules
OtherFiles ==
  {[path \in {"logic/rules/notes.txt"} |->
      [parses |-> TRUE, doc |-> RuleDocument(Num(1), <<ValueC>>)]]}

\* the disk holding the files of the three functions
Merge(ruleFiles, testFiles, others) ==
  [path \in DOMAIN ruleFiles \cup DOMAIN testFiles \cup DOMAIN others |->
     IF path \in DOMAIN ruleFiles THEN ruleFiles[path]
     ELSE IF path \in DOMAIN testFiles THEN testFiles[path]
     ELSE others[path]]

\* the sets of at most n of the paths
PathSets(paths, n) == {S \in SUBSET paths : Cardinality(S) <= n}

\* SpecCheck: one run of `logicrepo check`.  cli holds the disk, the stage
\* of the run (pc), ruleFiles and testFiles and the position in the two
\* loops over them (ruleIndex, testIndex), hasErrors, validationErrors,
\* testLoadErrors, allTestResults and, once the process has ended, its
\* exit code; rules is allRules.
InitCheck ==
  /\ rules = <<>>
  /\ call = NoCall
  /\ result = Undef
  /\ kept = NoKept
  /\ \E R \in PathSets(RuleYamlPaths, MaxRuleFiles),
        T \in PathSets(TestYamlPaths, MaxTestFiles) :
       \E ruleFiles \in [R -> RuleContents], testFiles \in [T -> TestContents],
          others \in OtherFiles :
       \E disk \in {Merge(ruleFiles, testFiles, others)} :
       cli = [pc |-> "rules", disk |-> disk,
              ruleFiles |-> findYamlFiles(RulesDir, disk), ruleIndex |-> 1,
              testFiles |-> <<>>, testIndex |-> 1,
              hasErrors |-> FALSE, validationErrors |-> <<>>,
              testLoadErrors |-> <<>>, allTestResults |-> <<>>,
              crashed |-> FALSE, code |-> -1]

\* one turn of the loop over ruleFiles
LoadNextRuleFile ==
  /\ cli.pc = "rules"
  /\ cli.ruleIndex <= Len(cli.ruleFiles)
  /\ \E loaded \in {loadRuleFile(cli.ruleFiles[cli.ruleIndex], cli.disk)} :
       IF isValidationError(loaded)
       THEN /\ cli' = [cli EXCEPT !.ruleIndex = @ + 1,
                                  !.hasErrors = TRUE,
                                  !.validationErrors = Append(@, loaded)]
            /\ rules' = rules
       ELSE /\ cli' = [cli EXCEPT !.ruleIndex = @ + 1]
            /\ rules' = rules \o loaded.records
  /\ UNCHANGED <<call, result, kept>>

\* the loop over ruleFiles is over: the validation errors are printed and
\* the test files are looked up
StartTests ==
  /\ cli.pc = "rules"
  /\ cli.ruleIndex > Len(cli.ruleFiles)
  /\ cli' = [cli EXCEPT !.pc = "tests",
                        !.testFiles = findYamlFiles(TestsDir, cli.disk)]
  /\ UNCHANGED <<rules, call, result, kept>>

\* one turn of the loop over testFiles.  An exception raised by runTests is
\* caught nowhere: the process ends with an uncaught exception, exit code 1.
RunNextTestFile ==
  /\ cli.pc = "tests"
  /\ cli.testIndex <= Len(cli.testFiles)
  /\ \E loaded \in {loadTestFile(cli.testFiles[cli.testIndex], cli.disk)} :
       IF isValidationError(loaded)
       THEN cli' = [cli EXCEPT !.testIndex = @ + 1,
                               !.hasErrors = TRUE,
                               !.testLoadErrors = Append(@, loaded)]
       ELSE \E testResults \in {runTests(loaded.records, rules, loaded.file)} :
              IF \E i \in 1..Len(testResults) : testResults[i].threw
              THEN cli' = [cli EXCEPT !.pc = "exited", !.crashed = TRUE, !.code = 1]
              ELSE cli' = [cli EXCEPT
                             !.testIndex = @ + 1,
                             !.hasErrors =
                               @ \/ Len(SelectSeq(testResults, LAMBDA r : ~r.passed)) > 0,
                             !.allTestResults = @ \o testResults]
  /\ UNCHANGED <<rules, call, result, kept>>

\* the loop over testFiles is over: the errors, the failures and the
\* summary are printed and the process exits
Exit ==
  /\ cli.pc = "tests"
  /\ cli.testIndex > Len(cli.testFiles)
  /\ cli' = [cli EXCEPT !.pc = "exited", !.code = exitCode(cli.hasErrors)]
  /\ UNCHANGED <<rules, call, result, kept>>

NextCheck ==
  \/ LoadNextRuleFile
  \/ StartTests
  \/ RunNextTestFile
  \/ Exit

SpecCheck == InitCheck /\ [][NextCheck]_vars

(* ------------------------------------------------------------------ *)
(* Properties                                                          *)
(* ------------------------------------------------------------------ *)
Matched == result.matched_rule # Null

\* the indices of the rules whose condition matches the input of the call
MatchingRules == {i \in 1..Len(rules) : matchConditions(rules[i].when, call.input) = "true"}

Least(S) == CHOOSE i \in S : \A j \in S : i <= j

\* C1: evaluate returns the id and the output of the matching rule with the
\* smallest index, and matched_rule null with an empty output exactly when
\* no rule matches.
C1_FirstMatchWins ==
  call.op = "evaluate" =>
    /\ ~result.threw
    /\ (result.matched_rule = Null) <=> (MatchingRules = {})
    /\ MatchingRules = {} => result.output = EmptyObj
    /\ MatchingRules # {} =>
         LET first == rules[Least(MatchingRules)]
         IN /\ result.matched_rule = Str(first.id)
            /\ result.output.keys = first.then.keys
            /\ result.output.items = first.then.items

\* two rules with different ids match and the earlier one is returned
C1_Witness ==
  /\ call.op = "evaluate"
  /\ \E i, j \in MatchingRules :
       /\ i < j
       /\ rules[i].id # rules[j].id
       /\ result.matched_rule = Str(rules[i].id)

\* the one-rule list under SpecMatch: its condition on one field
OneField(field) ==
  /\ call.op = "evaluate"
  /\ Len(rules) = 1
  /\ rules[1].when.keys = <<field>>

Constraint == rules[1].when.items[1]

IsScalar(v) == v.k \in {"null", "boolean", "number", "string"}

\* the same scalar of the same type; NaN is not equal to itself
SameScalar(a, b) ==
  /\ a.k = b.k
  /\ a.s = b.s
  /\ a.n = b.n
  /\ ~IsNaN(a)

\* C2: a scalar constraint matches iff the input's value has the same type
\* and the same value: no coercion between numbers, strings and booleans,
\* and strings compared with case.
C2_StrictScalarMatch ==
  (OneField("tier") /\ IsScalar(Constraint)) =>
    (Matched <=> (/\ HasKey(call.input, "tier")
                  /\ SameScalar(Constraint, Get(call.input, "tier"))))

\* the number 100 against the string "100": no match
C2_Witness ==
  /\ OneField("tier")
  /\ Constraint = Num(100)
  /\ Get(call.input, "tier") = Str("100")
  /\ ~Matched

IsNullConstraint == OneField("tier") /\ Constraint = Null

IsComparison(c) ==
  /\ c.k = "object"
  /\ Len(c.keys) > 0
  /\ \A i \in 1..Len(c.keys) : c.keys[i] \in ComparisonKeys /\ c.items[i].k = "number"

\* v >= b, v <= b, v > b or v < b over the numbers, as the key says
BoundHolds(key, v, b) ==
  /\ ~IsNaN(v)
  /\ ~IsNaN(b)
  /\ CASE key = "gte" -> v.n >= b.n
       [] key = "lte" -> v.n <= b.n
       [] key = "gt" -> v.n > b.n
       [] OTHER -> v.n < b.n

\* C5: a comparison constraint matches iff the input value is a number and
\* every bound present holds; a numeric string, null and a missing field
\* never match.
C5_ComparisonBounds ==
  (OneField("q") /\ IsComparison(Constraint)) =>
    LET v == Get(call.input, "q")
    IN Matched <=>
         /\ HasKey(call.input, "q")
         /\ v.k = "number"
         /\ \A i \in 1..Len(Constraint.keys) :
              BoundHolds(Constraint.keys[i], v, Constraint.items[i])

\* {gte: 10, lte: 100} against 10: match at the inclusive bound
C5_Witness ==
  /\ OneField("q")
  /\ Constraint = Cmp(Num(10), Num(100), Undef, Undef)
  /\ Get(call.input, "q") = Num(10)
  /\ Matched

IsIn(c) ==
  /\ c.k = "object"
  /\ c.keys = <<"in">>
  /\ c.items[1].k = "array"
  /\ \A i \in 1..Len(c.items[1].items) : IsScalar(c.items[1].items[i])

\* C6 as stated: {in: [...]} matches iff the input value is strictly equal
\* to some element of the list; a missing field never matches.
C6_InStrictMembership ==
  \A field \in {"tier", "q"} :
    (OneField(field) /\ IsIn(Constraint)) =>
      LET list == Constraint.items[1].items
      IN Matched <=>
           /\ HasKey(call.input, field)
           /\ \E i \in 1..Len(list) : SameScalar(list[i], Get(call.input, field))

\* the tree semantics: the conjunction of the field constraints, of every
\* element of `all` and of the disjunction of the elements of `any`
RECURSIVE RefMatches(_, _)
RefMatches(c, input) ==
  /\ \A i \in 1..Len(c.keys) :
       c.keys[i] \notin {"all", "any"} =>
         matchCondition(c.items[i], Get(input, c.keys[i]))
  /\ HasKey(c, "all") =>
       \A j \in 1..Len(Get(c, "all").items) : RefMatches(Get(c, "all").items[j], input)
  /\ HasKey(c, "any") =>
       \E j \in 1..Len(Get(c, "any").items) : RefMatches(Get(c, "any").items[j], input)

\* C7: for every well-formed condition tree, the matcher agrees with the
\* boolean semantics: fields AND all-elements AND (OR of any-elements), at
\* every nesting depth.
C7_BooleanSemantics ==
  (call.op = "evaluate" /\ Len(rules) = 1) =>
    (Matched <=> RefMatches(rules[1].when, call.input))

\* an `any` inside an `all` inside an `any`, matched through the inner any
C7_Witness ==
  /\ call.op = "evaluate"
  /\ Len(rules) = 1
  /\ Matched
  /\ Get(call.input, "tier") # Str("vip")
  /\ LET outer == Get(rules[1].when, "any")
     IN /\ outer.k = "array"
        /\ \E i \in 1..Len(outer.items) :
             LET mid == Get(outer.items[i], "all")
             IN /\ mid.k = "array"
                /\ \E j \in 1..Len(mid.items) : Get(mid.items[j], "any").k = "array"

CatchAllLast == Len(rules) > 0 /\ rules[Len(rules)].when = EmptyObj

\* C8: an empty condition matches every input; with a catch-all as the last
\* rule evaluate always returns a rule, and returns the catch-all (its id
\* borne by no earlier rule) only when no earlier rule matches.
C8_CatchAll ==
  call.op = "evaluate" =>
    /\ (Len(rules) > 0 /\ rules[1].when = EmptyObj) =>
         result.matched_rule = Str(rules[1].id)
    /\ CatchAllLast =>
         /\ Matched
         /\ (/\ result.matched_rule = Str(rules[Len(rules)].id)
             /\ \A i \in 1..(Len(rules) - 1) : rules[i].id # rules[Len(rules)].id)
              => \A i \in 1..(Len(rules) - 1) : i \notin MatchingRules

\* a catch-all after a rule that does not match: the catch-all is returned
C8_Witness ==
  /\ call.op = "evaluate"
  /\ CatchAllLast
  /\ Len(rules) > 1
  /\ \A i \in 1..(Len(rules) - 1) : rules[i].when # EmptyObj
  /\ result.matched_rule = Str(rules[Len(rules)].id)

\* rule i constrains rule_type at the top level to the scalar of the call
InScope(i) ==
  /\ HasKey(rules[i].when, "rule_type")
  /\ SameScalar(Get(rules[i].when, "rule_type"), call.ruleType)

ScopedMatches == {i \in MatchingRules : InScope(i)}

\* C9: evaluateByType returns what evaluate returns on the rules whose
\* condition has the top-level key rule_type equal to the given type, in
\* order: the first of them that matches, which has when.rule_type equal to
\* the type, or no rule.
C9_ByTypeFilter ==
  call.op = "evaluateByType" =>
    /\ ~result.threw
    /\ ScopedMatches = {} => (result.matched_rule = Null /\ result.output = EmptyObj)
    /\ ScopedMatches # {} =>
         LET first == rules[Least(ScopedMatches)]
         IN /\ result.matched_rule = Str(first.id)
            /\ result.output.keys = first.then.keys
            /\ result.output.items = first.then.items
            /\ Get(first.when, "rule_type") = call.ruleType

\* a rule outside the type (a catch-all, or one without rule_type) matches
\* the input earlier in the list, and the rule of the type is returned
C9_Witness ==
  /\ call.op = "evaluateByType"
  /\ ScopedMatches # {}
  /\ \E j \in MatchingRules : j < Least(ScopedMatches) /\ ~InScope(j)
  /\ result.matched_rule = Str(rules[Least(ScopedMatches)].id)

\* C10: passed iff the expectation has no matched_rule key or its
\* matched_rule is the actual one, and every other key of the expectation
\* is deeply equal to actual.output at that key.
C10_Passed ==
  call.op = "runTest" =>
    LET expect == call.test.expect
        actual == result.actual
    IN /\ ~result.threw
       /\ result.passed <=>
            /\ \/ ~HasKey(expect, "matched_rule")
               \/ SameScalar(Get(expect, "matched_rule"), actual.matched_rule)
            /\ \A i \in 1..Len(expect.keys) :
                 expect.keys[i] # "matched_rule" =>
                   deepEqual(expect.items[i], Get(actual.output, expect.keys[i]))

\* a test that names a rule and an output value, both right: it passes
C10_Witness ==
  /\ call.op = "runTest"
  /\ HasKey(call.test.expect, "matched_rule")
  /\ Len(call.test.expect.keys) > 1
  /\ result.passed

\* a test without matched_rule whose output differs: the rule that matched
\* is not looked at and the test fails on the output
C10_WitnessNoRule ==
  /\ call.op = "runTest"
  /\ ~HasKey(call.test.expect, "matched_rule")
  /\ Len(call.test.expect.keys) > 0
  /\ result.actual.matched_rule # Null
  /\ ~result.passed

\* the test of the runTest call, what it expects and what evaluation gave
Expect == call.test.expect
Want == Get(call.test.expect, "matched_rule")
Got == result.actual.matched_rule

Failed == call.op = "runTest" /\ ~result.threw /\ ~result.passed

\* C11: a result carries a reason, a non-empty string, iff it did not pass.
C11_ReasonIffFailed ==
  call.op = "runTest" =>
    /\ ~result.threw
    /\ result.passed => result.reason = Undef
    /\ ~result.passed => (result.reason.k = "string" /\ result.reason.s # "")

\* a failing result with its reason
C11_Witness == Failed /\ result.reason.k = "string" /\ result.reason.s # ""

\* the 1-based index of the first rule with the id, 0 when there is none
IndexOfId(id) ==
  IF \E i \in 1..Len(rules) : rules[i].id = id
  THEN Least({i \in 1..Len(rules) : rules[i].id = id})
  ELSE 0

NoRuleReason == Str("No rule matched the input. Check your rule conditions.")

OrderingReason ==
  Str("Rule '" \o TemplateString(Got) \o "' matched before '"
        \o TemplateString(Want) \o "'. Check rule ordering.")

GenericReason ==
  Str("Expected rule '" \o TemplateString(Want) \o "' to match, but '"
        \o TemplateString(Got) \o "' matched instead.")

\* a test that names a rule, and another rule matched
OtherRuleMatched ==
  /\ call.op = "runTest"
  /\ Want.k = "string"
  /\ Got.k = "string"
  /\ Want.s # Got.s

\* C12: when another rule than the expected one matched, the reason is the
\* ordering diagnosis iff the matched rule stands before the expected rule
\* in the list; when it stands after it, or the expected id is not in the
\* list, the reason is the "expected X, but Y matched" diagnosis.
C12_OrderingDiagnosis ==
  OtherRuleMatched =>
    LET expectedAt == IndexOfId(Want.s)
        actualAt == IndexOfId(Got.s)
    IN /\ ~result.passed
       /\ actualAt > 0
       /\ result.reason =
            IF expectedAt > 0 /\ actualAt < expectedAt
            THEN OrderingReason ELSE GenericReason

\* the expected rule comes first, a later rule matched: the generic reason
C12_Witness ==
  /\ OtherRuleMatched
  /\ IndexOfId(Want.s) > 0
  /\ IndexOfId(Got.s) > IndexOfId(Want.s)
  /\ result.reason = GenericReason

\* the matched rule comes first: the ordering reason
C12_WitnessOrdering ==
  /\ OtherRuleMatched
  /\ IndexOfId(Got.s) < IndexOfId(Want.s)
  /\ result.reason = OrderingReason

\* C13: a test that names a rule id, evaluated to no rule, fails with the
\* "No rule matched" reason, whatever the output fields and whether or not
\* the id is in the list.
C13_NoRuleMatched ==
  (call.op = "runTest" /\ Want.k = "string" /\ Got = Null) =>
    /\ ~result.passed
    /\ result.reason = NoRuleReason

\* no rule matched, the expected id is in the list and an expected output
\* field differs too
C13_Witness ==
  /\ call.op = "runTest"
  /\ Want.k = "string"
  /\ IndexOfId(Want.s) > 0
  /\ Got = Null
  /\ \E i \in 1..Len(Expect.keys) :
       /\ Expect.keys[i] # "matched_rule"
       /\ ~deepEqual(Expect.items[i], Get(result.actual.output, Expect.keys[i]))
  /\ result.reason = NoRuleReason

RuleCheckHolds == ~HasKey(Expect, "matched_rule") \/ SameScalar(Want, Got)

\* the entries of the expectation, other than matched_rule, that differ
\* from the output
Differing ==
  {i \in 1..Len(Expect.keys) :
     /\ Expect.keys[i] # "matched_rule"
     /\ ~deepEqual(Expect.items[i], Get(result.actual.output, Expect.keys[i]))}

OutputReason(i) ==
  Str("Output mismatch: expected " \o Expect.keys[i] \o "="
        \o JSONstringify(Expect.items[i]) \o ", got "
        \o JSONstringify(Get(result.actual.output, Expect.keys[i])))

RuleReasons == {NoRuleReason, OrderingReason, GenericReason}

\* C14: the output diagnosis is given only when the matched-rule check
\* holds, and names the first differing key of the expectation with the
\* expected and the actual value; when the matched-rule check fails the
\* reason is about the rule even if output fields differ.
C14_OutputDiagnosis ==
  Failed =>
    IF RuleCheckHolds
    THEN /\ Differing # {}
         /\ result.reason = OutputReason(Least(Differing))
    ELSE /\ result.reason \in RuleReasons
         /\ \A i \in 1..Len(Expect.keys) : result.reason # OutputReason(i)

\* two expected fields differ and the first one is named
C14_Witness ==
  /\ Failed
  /\ RuleCheckHolds
  /\ Cardinality(Differing) > 1
  /\ result.reason = OutputReason(Least(Differing))

\* the rule check fails and an output field differs: the reason is about
\* the rule
C14_WitnessRule ==
  /\ Failed
  /\ ~RuleCheckHolds
  /\ Differing # {}
  /\ result.reason \in RuleReasons

\* C15: a failing result never has the reason "Unknown mismatch": it has
\* one of the no-rule, ordering, expected-but-matched or output reasons.
C15_NoUnknownMismatch ==
  Failed =>
    /\ result.reason # Str("Unknown mismatch")
    /\ result.reason \in RuleReasons \cup {OutputReason(i) : i \in 1..Len(Expect.keys)}

\* the test expects no rule (matched_rule: null), a rule matched, and no
\* expected output field differs
C15_Witness ==
  /\ Failed
  /\ Want = Null
  /\ Got # Null
  /\ Differing = {}
  /\ result.reason = GenericReason

\* structural equality of JSON values: the same kind, and the same scalar,
\* the same elements in order, or the same keys with equal values
RECURSIVE RefEqual(_, _)
RefEqual(a, b) ==
  /\ a.k = b.k
  /\ CASE a.k = "array" ->
            /\ Len(a.items) = Len(b.items)
            /\ \A i \in 1..Len(a.items) : RefEqual(a.items[i], b.items[i])
       [] a.k = "object" ->
            /\ {a.keys[i] : i \in 1..Len(a.keys)} = {b.keys[i] : i \in 1..Len(b.keys)}
            /\ \A i \in 1..Len(a.keys) : RefEqual(a.items[i], Get(b, a.keys[i]))
       [] OTHER -> SameScalar(a, b)

\* the one-rule list under SpecEqual: the test expects v, the rule outputs v
ComparesV ==
  /\ call.op = "runTest"
  /\ Len(rules) = 1
  /\ rules[1].then.keys = <<"v">>
  /\ Expect.keys = <<"v">>

\* C16 as stated: the output comparison is structural equality of JSON
\* values; values of different kinds are never equal.
C16_StructuralEquality ==
  ComparesV => (result.passed <=> RefEqual(Expect.items[1], rules[1].then.items[1]))

\* the keys and the value added to rule outputs
ExtraKeys == {"extra", "pct"}
ExtraValue == Num(1)

\* the rule list with key added to the `then` of every rule that lacks it
WithExtra(list, key) ==
  [i \in 1..Len(list) |->
     IF HasKey(list[i].then, key) THEN list[i]
     ELSE Rule(list[i].id, list[i].when,
               Obj(Append(list[i].then.keys, key), Append(list[i].then.items, ExtraValue)))]

\* C17: only the keys of the expectation are compared: a key added to the
\* rules' outputs that the expectation does not mention changes neither
\* passed nor reason, and an expectation without keys always passes.
C17_OnlyDeclaredKeys ==
  call.op = "runTest" =>
    /\ Expect.keys = <<>> => result.passed
    /\ \A key \in ExtraKeys :
         ~HasKey(Expect, key) =>
           LET other == runTest(call.test, WithExtra(rules, key), TestFile)
           IN /\ other.passed = result.passed
              /\ other.reason = result.reason

\* a passing test whose matched rule outputs a key the test does not mention
C17_Witness ==
  /\ call.op = "runTest"
  /\ result.passed
  /\ Len(Expect.keys) > 0
  /\ \E i \in 1..Len(result.actual.output.keys) :
       ~HasKey(Expect, result.actual.output.keys[i])

\* the first rule, if any, that matches the test input among the rules in
\* scope: every rule when the input has no rule_type, otherwise the rules
\* whose condition has the top-level rule_type of the input
ExpectedRule(input) ==
  LET type == Get(input, "rule_type")
      scoped(i) ==
        HasKey(input, "rule_type") =>
          (HasKey(rules[i].when, "rule_type")
             /\ SameScalar(Get(rules[i].when, "rule_type"), type))
      hits == {i \in 1..Len(rules) :
                 scoped(i) /\ matchConditions(rules[i].when, input) = "true"}
  IN IF hits = {} THEN Null ELSE Str(rules[Least(hits)].id)

\* C18 as stated: runTest evaluates by type whenever the test input has a
\* rule_type value, the empty string included, and over all the rules only
\* when the input has no rule_type key.
C18_ByTypeWhenPresent ==
  call.op = "runTest" => result.actual.matched_rule = ExpectedRule(call.input)

\* the rules when the call was made have this id, condition and output
RuleIntact(id, output) ==
  \E i \in 1..Len(rules) :
    /\ Str(rules[i].id) = id
    /\ rules[i].then.keys = output.keys
    /\ rules[i].then.items = output.items

\* what evaluate returned has the keys and values of the matched rule's
\* `then`, or no rule and an empty output
ReturnsThen(returned) ==
  IF returned.matched_rule = Null THEN returned.output = EmptyObj
  ELSE RuleIntact(returned.matched_rule, returned.output)

MalformedConstraint(c) ==
  c.k \in {"object", "array"} /\ ~isComparisonOperator(c) /\ ~IsIn(c)

HasMalformedField(c) ==
  /\ c.k = "object"
  /\ \E i \in 1..Len(c.keys) :
       c.keys[i] \notin {"all", "any"} /\ MalformedConstraint(c.items[i])

\* C22: the matcher never throws, whatever the shape of the condition, and
\* a condition with a malformed field constraint does not match.
C22_TotalFailClosed ==
  (call.op = "evaluate" /\ Len(rules) = 1) =>
    /\ ~result.threw
    /\ HasMalformedField(rules[1].when) => ~Matched

\* c without its keys in drop
Without(c, drop) ==
  LET keep(i) == c.keys[i] \notin drop
      idx == SelectSeq([i \in 1..Len(c.keys) |-> i], keep)
  IN Obj([j \in 1..Len(idx) |-> c.keys[idx[j]]], [j \in 1..Len(idx) |-> c.items[idx[j]]])

\* the keys among all and any that c has with a value that is not a list
NonListKeys(c) == {key \in {"all", "any"} : HasKey(c, key) /\ ~IsArray(Get(c, key))}

\* C24: an `all` or `any` key whose value is not a list adds no constraint:
\* the tree matches exactly when the tree without that key matches.
C24_NonListIgnored ==
  (/\ call.op = "evaluate"
   /\ Len(rules) = 1
   /\ rules[1].when.k = "object"
   /\ NonListKeys(rules[1].when) # {}) =>
    LET rest == Without(rules[1].when, NonListKeys(rules[1].when))
    IN /\ ~result.threw
       /\ Matched <=> RefMatches(rest, call.input)

\* `all: 5` beside `any: [tier: vip]`, matched through the any alone
C24_Witness ==
  /\ call.op = "evaluate"
  /\ Len(rules) = 1
  /\ rules[1].when.k = "object"
  /\ Get(rules[1].when, "all") = Num(5)
  /\ IsArray(Get(rules[1].when, "any"))
  /\ Matched

\* a non-list `any` beside a field constraint that the input fails
C24_WitnessRejected ==
  /\ call.op = "evaluate"
  /\ Len(rules) = 1
  /\ rules[1].when.k = "object"
  /\ "any" \in NonListKeys(rules[1].when)
  /\ HasKey(rules[1].when, "tier")
  /\ ~result.threw
  /\ ~Matched

\* a one-rule evaluate call whose condition has a list under key
HasList(key) ==
  /\ call.op = "evaluate"
  /\ Len(rules) = 1
  /\ IsArray(Get(rules[1].when, key))

\* the rest of the condition matches, and so does some element of list
RestAndSome(rest, list) ==
  /\ matchConditions(rest, call.input) = "true"
  /\ \E j \in 1..Len(list) : matchConditions(list[j], call.input) = "true"

\* an empty `all` list adds no constraint
EmptyAllIgnored ==
  (HasList("all") /\ Get(rules[1].when, "all").items = <<>>) =>
    (Matched <=> matchConditions(Without(rules[1].when, {"all"}), call.input) = "true")

\* C25 as stated: `any` rejects only when its list is non-empty and no
\* element matches, so an empty `any` list rejects nothing; an empty `all`
\* list adds no constraint.
C25_EmptyAnyNotRejected ==
  /\ HasList("any") =>
       LET list == Get(rules[1].when, "any").items
           rest == Without(rules[1].when, {"any"})
       IN Matched <=>
            IF list = <<>> THEN matchConditions(rest, call.input) = "true"
            ELSE RestAndSome(rest, list)
  /\ EmptyAllIgnored

\* C25 amended: `any` rejects whenever no element of its list matches, the
\* empty list included; an empty `all` list adds no constraint.
C25_AnyNeedsAMatch ==
  /\ HasList("any") =>
       Matched <=> RestAndSome(Without(rules[1].when, {"any"}),
                               Get(rules[1].when, "any").items)
  /\ EmptyAllIgnored

\* the condition {any: []} evaluated: no match
C25_Witness ==
  /\ HasList("any")
  /\ rules[1].when = Obj(<<"any">>, <<Arr(<<>>)>>)
  /\ ~Matched

\* the condition {all: []} evaluated: a match
C25_WitnessEmptyAll ==
  /\ HasList("all")
  /\ rules[1].when = Obj(<<"all">>, <<Arr(<<>>)>>)
  /\ Matched

\* C28: for a scalar v, {in: [v]} matches an input value (or a missing
\* field) iff the exact-match constraint v matches it.
C28_SingletonInIsExact ==
  \A field \in {"tier", "q"} :
    (/\ OneField(field)
     /\ IsIn(Constraint)
     /\ Len(Get(Constraint, "in").items) = 1) =>
      (Matched <=>
         matchConditions(Obj(<<field>>, <<Get(Constraint, "in").items[1]>>),
                         call.input) = "true")

C21_WitnessByType ==
  /\ call.op = "evaluateByType"
  /\ Len(rules) = MaxRules
  /\ \E i \in 1..Len(rules) : ~StrictEq(Get(rules[i].when, "rule_type"), call.ruleType)

\* the YAML files of the disk under paths, in ascending path order
Ascending(paths) ==
  SelectSeq(PathOrder, LAMBDA path : path \in DOMAIN cli.disk /\ path \in paths)

\* a rule the loader is to accept: a non-empty string id, a when, and a
\* then that is an object
AcceptableRule(v) ==
  /\ v.k = "object"
  /\ Get(v, "id").k = "string"
  /\ Get(v, "id").s # ""
  /\ HasKey(v, "when")
  /\ TypeOf(Get(v, "then")) = "object"

AcceptableTest(v) ==
  /\ v.k = "object"
  /\ Get(v, "name").k = "string"
  /\ Get(v, "name").s # ""
  /\ TypeOf(Get(v, "input")) = "object"
  /\ TypeOf(Get(v, "expect")) = "object"

\* a file that loads: parsable, version 1, and every record acceptable
Loads(content, listKey) ==
  /\ content.parses
  /\ content.doc.k = "object"
  /\ Get(content.doc, "version") = Num(1)
  /\ IsArray(Get(content.doc, listKey))
  /\ \A i \in 1..Len(Get(content.doc, listKey).items) :
       IF listKey = "rules" THEN AcceptableRule(Get(content.doc, listKey).items[i])
       ELSE AcceptableTest(Get(content.doc, listKey).items[i])

RECURSIVE RulesOf(_)
\* the rules of the files of paths that load, file after file
RulesOf(paths) ==
  IF paths = <<>> THEN <<>>
  ELSE LET content == cli.disk[Head(paths)]
           list == Get(content.doc, "rules").items
       IN (IF Loads(content, "rules") THEN [i \in 1..Len(list) |-> AsRule(list[i])]
           ELSE <<>>) \o RulesOf(Tail(paths))

Exited == cli.pc = "exited"

AllPassed == \A i \in 1..Len(cli.allTestResults) : cli.allTestResults[i].passed

EveryFileLoads ==
  /\ \A path \in RuleYamlPaths \cap DOMAIN cli.disk : Loads(cli.disk[path], "rules")
  /\ \A path \in TestYamlPaths \cap DOMAIN cli.disk : Loads(cli.disk[path], "tests")

\* C23: nothing the loaders accept makes evaluate or runTest throw: no run
\* of the check command ends with an exception raised by the runner.
C23_AcceptedNeverThrows ==
  Exited => ~cli.crashed

\* C26: the rule list the tests are run against has no two rules with the
\* same id and no rule with an empty id.
C26_UniqueIds ==
  cli.pc = "tests" =>
    \A i, j \in 1..Len(rules) :
      /\ rules[i].id # ""
      /\ i # j => rules[i].id # rules[j].id

C27_WitnessZero ==
  /\ Exited
  /\ cli.code = 0
  /\ Len(cli.allTestResults) > 0

\* C29: the tests are run once every rule file has been processed, and all
\* of them against one rule list: the rules of the rule files that load, in
\* ascending path order and in-file order, none from a file that fails; a
\* rule file that fails does not end the run.
C29_OneRuleListForAllTests ==
  /\ [](cli.pc = "tests" =>
          /\ cli.ruleIndex > Len(Ascending(RuleYamlPaths))
          /\ rules = RulesOf(Ascending(RuleYamlPaths)))
  /\ [][cli.pc = "tests" => rules' = rules]_vars
  /\ [][cli'.allTestResults # cli.allTestResults => cli.pc = "tests"]_vars
  /\ [][cli.pc = "rules" => cli'.pc \in {"rules", "tests"}]_vars

\* tests run against the rules of one file, the other rule file having
\* failed to load
C29_Witness ==
  /\ cli.pc = "tests"
  /\ Len(cli.validationErrors) = 1
  /\ Len(Ascending(RuleYamlPaths)) = 2
  /\ Len(rules) > 0
  /\ Len(cli.allTestResults) > 0

\* tests run against the rules of two files
C29_WitnessTwoFiles ==
  /\ cli.pc = "tests"
  /\ cli.validationErrors = <<>>
  /\ Len(Ascending(RuleYamlPaths)) = 2
  /\ Len(rules) = 3
  /\ Len(cli.allTestResults) > 0

\* the turn of a file loop taken in this step failed: the file did not
\* load, or one of its tests failed
TurnFailed ==
  \/ /\ cli.pc = "rules"
     /\ cli'.ruleIndex # cli.ruleIndex
     /\ ~Loads(cli.disk[Ascending(RuleYamlPaths)[cli.ruleIndex]], "rules")
  \/ /\ cli.pc = "tests"
     /\ cli'.testIndex # cli.testIndex
     /\ \/ ~Loads(cli.disk[Ascending(TestYamlPaths)[cli.testIndex]], "tests")
        \/ \E i \in 1..Len(cli'.allTestResults) :
             i > Len(cli.allTestResults) /\ ~cli'.allTestResults[i].passed

\* C30: the error flag starts false, is set by a rule file or a test file
\* that fails to load and by a test file with a failing test, is never
\* cleared, and decides the exit code: 1 iff it is set, 0 otherwise.
C30_FlagDecidesExit ==
  /\ [](cli.pc = "rules" /\ cli.ruleIndex = 1 => ~cli.hasErrors)
  /\ [][cli.hasErrors => cli'.hasErrors]_vars
  /\ [][~cli.hasErrors => (cli'.hasErrors <=> TurnFailed)]_vars
  /\ [](Exited => /\ cli.code = 1 <=> cli.hasErrors
                  /\ cli.code = 0 <=> ~cli.hasErrors)
====
